---- MODULE Spec2Model ----
(***************************************************************************)
(* State-machine model of the flower-shop support pipeline                 *)
(* (src/flow_service.py) and of its command-line caller (src/cli.py).      *)
(*                                                                         *)
(* Python dicts are modelled as insertion-ordered association lists        *)
(* (sequences of [k, v] records): assignment to an existing key keeps the  *)
(* key's position, assignment to a new key appends.                        *)
(***************************************************************************)
EXTENDS Integers, Sequences, FiniteSets, TLC

VARIABLES
    ORDERS_DB,        \* in-memory order dict            (flow_service.py:41)
    BUNDLES_STORAGE,  \* in-memory bundle dict           (flow_service.py:42)
    ORDER_COUNTER,    \* next order number               (flow_service.py:43)
    db_file,          \* contents of orders_db.json      (flow_service.py:37)
    bundles_file,     \* contents of bundles_db.json     (flow_service.py:38)
    pc,               \* position of the caller / the workflow
    state,            \* the ServiceState of the current run
    stages,           \* nodes entered by the current run, in order
    raised,           \* exception that ended the current operation, or NoError
    io_log,           \* external calls of the current operation, in order
    exec_hist,        \* what execute_action saw and did in the current run
    alloc_log,        \* identifiers allocated by create_order in this process
    lookup_out,       \* value returned by the last get_order_decrypted
    cli_out,          \* what the command line printed for the last request
    mrg_in,           \* merge harness: bundles of the pipeline state
    mrg_new,          \* merge harness: bundles contributed by the action
    mrg_out,          \* merge harness: final_bundles
    mrg_done,         \* merge harness: the merge has run
    callers           \* concurrent callers of create_order: position and locals

vars == << ORDERS_DB, BUNDLES_STORAGE, ORDER_COUNTER, db_file, bundles_file,
           pc, state, stages, raised, io_log, exec_hist, alloc_log,
           lookup_out, cli_out, mrg_in, mrg_new, mrg_out, mrg_done, callers >>

storeVars == << ORDERS_DB, BUNDLES_STORAGE, ORDER_COUNTER, db_file, bundles_file >>
mrgVars   == << mrg_in, mrg_new, mrg_out, mrg_done >>
concVars  == << callers >>
runVars   == << pc, state, stages, raised, io_log, exec_hist, alloc_log,
                lookup_out, cli_out >>

(***************************************************************************)
(* Bounds of the model.                                                    *)
(***************************************************************************)
MaxOrders  == 2    \* create_order is exercised while ORDER_COUNTER <= MaxOrders
MaxBundles == 2    \* longest bundle list fed to the merge harness

(***************************************************************************)
(* Values.                                                                 *)
(***************************************************************************)
Absent == "<absent>"     \* a key that is not in a dict; dict.get gives None
Empty  == ""             \* a falsy value: "" (or JSON null)

Keys     == {"[PERSON_1]", "[EMAIL_1]"}   \* placeholder tokens / stored ids
Payloads == {"c1", "c2"}                   \* what decrypt needs to restore a value
FieldVals == {Absent, Empty} \cup Keys

\* A bundle: a JSON value of the "bundles" list.  isdict = FALSE is a JSON
\* value that is not an object.
Bundle(p, i, c) == [isdict |-> TRUE, placeholder |-> p, id |-> i, payload |-> c]
NonDictBundle   == [isdict |-> FALSE, placeholder |-> Absent, id |-> Absent, payload |-> "c1"]
AllBundles ==
    {Bundle(p, i, c) : p \in FieldVals, i \in FieldVals, c \in Payloads}
        \cup {NonDictBundle}

SeqsUpTo(S, n) == UNION {[1..k -> S] : k \in 0..n}

(***************************************************************************)
(* Python dict, insertion ordered.                                         *)
(***************************************************************************)
EmptyDict == << >>
DictKeys(d) == {d[i].k : i \in 1..Len(d)}
DictHas(d, key) == key \in DictKeys(d)
DictIndex(d, key) == CHOOSE i \in 1..Len(d) : d[i].k = key
DictGet(d, key, default) == IF DictHas(d, key) THEN d[DictIndex(d, key)].v ELSE default
DictSetAppendAlways(d, key, val) == Append(d, [k |-> key, v |-> val])
DictSetKeepFirst(d, key, val) ==
    IF DictHas(d, key) THEN d ELSE Append(d, [k |-> key, v |-> val])
DictSetMoveToEnd(d, key, val) ==
    Append(SelectSeq(d, LAMBDA e : e.k # key), [k |-> key, v |-> val])
DictSetReplaceAll(d, key, val) == << [k |-> key, v |-> val] >>
DictSet(d, key, val) ==
    IF DictHas(d, key)
    THEN [d EXCEPT ![DictIndex(d, key)] = [k |-> key, v |-> val]]
    ELSE Append(d, [k |-> key, v |-> val])
DictValues(d) == [i \in 1..Len(d) |-> d[i].v]

(***************************************************************************)
(* Bundle merge and dedup (execute_action, flow_service.py:326-344).       *)
(***************************************************************************)
bundle_key(bundle) ==
    IF ~bundle.isdict THEN Absent
    ELSE IF bundle.placeholder # Absent THEN bundle.placeholder
    ELSE bundle.id

\* "if not key: continue"
SkipNothing(key) == FALSE
SkipKey(key) == key \in {Absent, Empty}

RECURSIVE unique_bundles_dict(_, _)
unique_bundles_dict(d, combined) ==
    IF combined = << >> THEN d
    ELSE LET bundle == Head(combined)
             key    == bundle_key(bundle)
         IN  unique_bundles_dict(
                 IF SkipKey(key) THEN d ELSE DictSet(d, key, bundle),
                 Tail(combined))

\* combined_bundles = state["bundles"] + new_bundles, then the dedup loop
MergeBundlesStateOnly(state_bundles, new_bundles) ==
    DictValues(unique_bundles_dict(EmptyDict, state_bundles))
MergeBundles(state_bundles, new_bundles) ==
    DictValues(unique_bundles_dict(EmptyDict, state_bundles \o new_bundles))


(***************************************************************************)
(* Configuration (flow_service.py:27-38).                                  *)
(***************************************************************************)
TENANT == "ai_private_demo"

(***************************************************************************)
(* Order identifiers: f"ORD-{ORDER_COUNTER:03d}" as a sequence of          *)
(* characters.                                                             *)
(***************************************************************************)
DigitChar == << "0", "1", "2", "3", "4", "5", "6", "7", "8", "9" >>

RECURSIVE Digits(_)
Digits(n) == IF n < 10 THEN << DigitChar[n + 1] >>
             ELSE Digits(n \div 10) \o << DigitChar[(n % 10) + 1] >>

Zeros(k) == [i \in 1..k |-> "0"]

\* format spec "03d": at least three digits, padded on the left with zeros
Format03d(n) ==
    LET d == Digits(n)
    IN  IF Len(d) >= 3 THEN d ELSE Zeros(3 - Len(d)) \o d

OrderId(n) == << "O", "R", "D", "-" >> \o Format03d(n)

AbsentId == << "<absent>" >>   \* no "order_id" key
EmptyId  == << >>              \* the string ""

\* ORDER_COUNTER += 1
NextCounterStuck(c) == c
NextCounter(c) == c + 1

(***************************************************************************)
(* Orders and results.                                                     *)
(***************************************************************************)
OrderRecord(customer, email, phone, address, items, now) ==
    [customer |-> customer, email |-> email, phone |-> phone,
     address |-> address, items |-> items,
     status |-> "processing", created_at |-> now]

NoFields ==
    [customer |-> Absent, email |-> Absent, phone |-> Absent,
     address |-> Absent, items |-> Absent,
     status |-> Absent, created_at |-> Absent]

\* A result dict.  error is a message (a sequence of strings, << >> when the
\* dict has no "error" key); fields are the keys spread from an order record.
NoResult ==
    [error |-> << >>, order_id |-> AbsentId, fields |-> NoFields,
     note |-> Absent, decrypt_error |-> << >>,
     has_orders |-> FALSE, orders |-> << >>, total |-> 0,
     status |-> Absent]

NotFoundResult == [NoResult EXCEPT !.error = << "Order not found" >>]

OrderResult(order, order_id) ==
    [NoResult EXCEPT !.fields = order, !.order_id = order_id]

\* json.dumps / json.loads of a value: the text that holds it
JsonDumps(x) == << x >>
JsonLoads(s) == s[1]
NoText == << >>

(***************************************************************************)
(* Storage helpers (flow_service.py:62-113).                               *)
(***************************************************************************)
AbsentDbFile  == [status |-> "absent",  orders |-> EmptyDict, counter |-> 1]
CorruptDbFile == [status |-> "corrupt", orders |-> EmptyDict, counter |-> 1]
AbsentBundlesFile  == [status |-> "absent",  bundles |-> EmptyDict]
CorruptBundlesFile == [status |-> "corrupt", bundles |-> EmptyDict]

\* outcomes of open(..., "w") + json.dump: written, open raised (file left as
\* it was), or the write raised after the file was truncated
WriteOutcomes == {"ok", "open_failed", "write_failed"}

\* load_db: each file is read on its own; a missing or unreadable file
\* leaves the module-level defaults
load_orders(f)   == IF f.status = "ok" THEN f.orders ELSE EmptyDict
load_counter(f)  == IF f.status = "ok" THEN f.counter ELSE 1
load_bundles(f)  == IF f.status = "ok" THEN f.bundles ELSE EmptyDict

save_db(io, orders, counter, old) ==
    CASE io = "ok"           -> [status |-> "ok", orders |-> orders, counter |-> counter]
      [] io = "open_failed"  -> old
      [] io = "write_failed" -> CorruptDbFile

write_bundles_file(io, storage, old) ==
    CASE io = "ok"           -> [status |-> "ok", bundles |-> storage]
      [] io = "open_failed"  -> old
      [] io = "write_failed" -> CorruptBundlesFile

get_bundles(storage, order_id) == DictGet(storage, order_id, << >>)

(***************************************************************************)
(* Business logic helpers (flow_service.py:118-202).                       *)
(***************************************************************************)
get_order(orders, order_id) ==
    IF ~DictHas(orders, order_id) THEN NotFoundResult
    ELSE OrderResult(DictGet(orders, order_id, NoFields), order_id)

get_all_orders(orders) ==
    [NoResult EXCEPT
        !.has_orders = TRUE,
        !.orders = [i \in 1..Len(orders) |->
                       [order_id |-> orders[i].k, fields |-> orders[i].v]],
        !.total = Len(orders)]

\* bundles collected for every order returned (flow_service.py:307-311)
RECURSIVE all_order_bundles(_, _)
all_order_bundles(storage, order_list) ==
    IF order_list = << >> THEN << >>
    ELSE LET order_id == Head(order_list).order_id
         IN  (IF order_id # EmptyId THEN get_bundles(storage, order_id) ELSE << >>)
                 \o all_order_bundles(storage, Tail(order_list))

\* create_order: the values of the globals and files when it returns or
\* raises.  "failed" is TRUE when save_db or save_bundles raised.
create_order_rolled_back(orders, storage, counter, dbf, bf, order, bundles, db_io, bf_io) ==
    [failed |-> db_io # "ok" \/ bf_io # "ok", order_id |-> OrderId(counter),
     orders |-> orders, counter |-> counter, storage |-> storage,
     db_file |-> dbf, bundles_file |-> bf,
     result |-> IF db_io = "ok" /\ bf_io = "ok"
                THEN [NoResult EXCEPT !.order_id = OrderId(counter),
                                      !.status = "created"]
                ELSE NoResult]
create_order(orders, storage, counter, dbf, bf, order, bundles, db_io, bf_io) ==
    LET order_id  == OrderId(counter)
        counter1  == NextCounter(counter)
        orders1   == DictSet(orders, order_id, order)
        dbf1      == save_db(db_io, orders1, counter1, dbf)
        storage1  == DictSet(storage, order_id, bundles)
    IN  IF db_io # "ok"
        THEN [failed |-> TRUE, order_id |-> order_id,
              orders |-> orders1, counter |-> counter1, storage |-> storage,
              db_file |-> dbf1, bundles_file |-> bf, result |-> NoResult]
        ELSE [failed |-> bf_io # "ok", order_id |-> order_id,
              orders |-> orders1, counter |-> counter1, storage |-> storage1,
              db_file |-> dbf1,
              bundles_file |-> write_bundles_file(bf_io, storage1, bf),
              result |-> IF bf_io = "ok"
                         THEN [NoResult EXCEPT !.order_id = order_id,
                                               !.status = "created"]
                         ELSE NoResult]


(***************************************************************************)
(* What the outside world can answer.                                      *)
(***************************************************************************)
UserInputs    == {"Create an order for John Smith", "Show order ORD-001"}
RedactedTexts == {"request about [PERSON_1]"}
Tenants       == {TENANT}
Clock         == {"2025-01-01 10:00"}
Drafts        == {"Dear [PERSON_1], done"}
Plaintexts    == {"Dear John Smith, done"}

\* bundle lists the redaction service answers with
LivePerson  == Bundle("[PERSON_1]", Absent, "c1")
LivePerson2 == Bundle("[PERSON_1]", Absent, "c2")
LiveEmail   == Bundle("[EMAIL_1]", "[PERSON_1]", "c1")
StoredOnly  == Bundle(Absent, "[EMAIL_1]", "c2")
KeylessBundle == Bundle(Absent, Absent, "c1")
DetectBundleLists ==
    { << >>,
      << LivePerson, LiveEmail >>,
      << LivePerson2, KeylessBundle, StoredOnly >> }

\* the parsed JSON object of the action selector
ActionObject(action, order_id, customer, email, phone, address, items) ==
    [action |-> action, order_id |-> order_id, customer |-> customer,
     email |-> email, phone |-> phone, address |-> address, items |-> items]
NoObject == ActionObject(Absent, AbsentId, Absent, Absent, Absent, Absent, Absent)
GetOrderObject(order_id) == [NoObject EXCEPT !.action = "get_order", !.order_id = order_id]
GetAllObject == [NoObject EXCEPT !.action = "get_all_orders"]
CreateObject ==
    ActionObject("create_order", AbsentId, "[PERSON_1]", "[EMAIL_1]",
                 "[PHONE_1]", "[LOCATION_1]", "20 roses")
UnknownObject == [NoObject EXCEPT !.action = "cancel_order"]

RequestedIds == {OrderId(n) : n \in 1..MaxOrders} \cup {OrderId(999), AbsentId}

ActionObjects ==
    {GetOrderObject(i) : i \in RequestedIds}
        \cup {GetAllObject, CreateObject, UnknownObject, NoObject}

\* The raw text of the model, as chunks: prose without braces, one well-formed
\* JSON object "{...}", or a brace-delimited chunk that is not JSON.
Prose      == [kind |-> "prose",  obj |-> NoObject]
Broken     == [kind |-> "broken", obj |-> NoObject]
Json(o)    == [kind |-> "json",   obj |-> o]
ClassifierTexts ==
    {<< Json(o) >> : o \in ActionObjects}
        \cup { << Prose, Json(CreateObject), Prose >>,
               << Json(GetAllObject), Prose, Json(GetAllObject) >>,
               << Prose >>, << >>, << Broken >> }

(***************************************************************************)
(* The workflow graph (create_workflow, flow_service.py:416-430).          *)
(***************************************************************************)
Nodes == {"process_input", "determine_action", "execute_action", "format_response"}
EntryPoint == "process_input"
NextNodeSkipsClassify(node) ==
    CASE node = "process_input"    -> "execute_action"
      [] node = "determine_action" -> "execute_action"
      [] node = "execute_action"   -> "format_response"
      [] node = "format_response"  -> "END"
NextNode(node) ==
    CASE node = "process_input"    -> "determine_action"
      [] node = "determine_action" -> "execute_action"
      [] node = "execute_action"   -> "format_response"
      [] node = "format_response"  -> "END"

(***************************************************************************)
(* Pipeline state, exceptions, call log.                                   *)
(***************************************************************************)
InitialState(user_input) ==
    [user_input |-> user_input, encrypted_input |-> Absent, bundles |-> << >>,
     tenant_id |-> Absent, action |-> NoText, tool_result |-> NoText,
     agent_response |-> Absent, final_response |-> Absent]
NoState == InitialState(Absent)

NoError == [type |-> "none", msg |-> << >>]
\* the except clauses re-raise as RuntimeError (flow_service.py:236-239,
\* 277-279, 357-362, 409-411)
OriginalException(msg) == [type |-> "Exception", msg |-> msg]
RuntimeError(msg) == [type |-> "RuntimeError", msg |-> msg]

\* one request to an external collaborator
Call(svc, text, attach, bundles, tenant_id, reply) ==
    [svc |-> svc, text |-> text, attach |-> attach, bundles |-> bundles,
     tenant_id |-> tenant_id, reply |-> reply, failed |-> FALSE]
\* the same request, when the call raised (transport error, non-2xx status,
\* unusable answer)
FailedCall(call) == [call EXCEPT !.failed = TRUE]

NoExec ==
    [ran |-> FALSE, action_type |-> Absent, entry_bundles |-> << >>,
     new_bundles |-> << >>, order_id |-> AbsentId, failed |-> FALSE]

NoLookup == [called |-> FALSE, order_id |-> AbsentId, result |-> NoResult]
NoOut == [kind |-> "none", draft |-> Absent, reply |-> Absent, error |-> NoError]


(***************************************************************************)
(* Extraction of the JSON object from the model's text                     *)
(* (determine_action, flow_service.py:269-271): the span from the first    *)
(* "{" to the last "}" is parsed; anything that is not exactly one JSON    *)
(* object makes json.loads raise.                                          *)
(***************************************************************************)
HasBrace(chunk) == chunk.kind \in {"json", "broken"}
BraceIndexes(text) == {i \in 1..Len(text) : HasBrace(text[i])}
Min(S) == CHOOSE x \in S : \A y \in S : x <= y
Max(S) == CHOOSE x \in S : \A y \in S : x >= y
ExtractSpan(text) ==
    IF BraceIndexes(text) = {} THEN << >>
    ELSE SubSeq(text, Min(BraceIndexes(text)), Max(BraceIndexes(text)))
ParsesAsObject(text) ==
    /\ Len(ExtractSpan(text)) = 1
    /\ ExtractSpan(text)[1].kind = "json"
ParsedObject(text) == ExtractSpan(text)[1].obj

\* determine_action returns normally: json.loads succeeded and
\* action_data['action'] (flow_service.py:273) did not raise KeyError
ClassifyAccepts(text) ==
    /\ ParsesAsObject(text)
    /\ ParsedObject(text).action # Absent

(***************************************************************************)
(* Initial state: a first start, no files on disk (load_db,                *)
(* flow_service.py:62-89, with the module defaults of lines 41-43).        *)
(***************************************************************************)
MergeIdle ==
    /\ mrg_in = << >>
    /\ mrg_new = << >>
    /\ mrg_out = << >>
    /\ mrg_done = FALSE

\* no thread is inside create_order
Callers == {1, 2}
IdleCaller == [pc |-> "idle", order_id |-> AbsentId, loaded |-> 0]
ConcIdle == callers = [c \in Callers |-> IdleCaller]

RunIdle ==
    /\ pc = "idle"
    /\ state = NoState
    /\ stages = << >>
    /\ raised = NoError
    /\ io_log = << >>
    /\ exec_hist = NoExec
    /\ lookup_out = NoLookup
    /\ cli_out = NoOut

Init ==
    /\ db_file = AbsentDbFile
    /\ bundles_file = AbsentBundlesFile
    /\ ORDERS_DB = load_orders(db_file)
    /\ ORDER_COUNTER = load_counter(db_file)
    /\ BUNDLES_STORAGE = load_bundles(bundles_file)
    /\ alloc_log = [start |-> ORDER_COUNTER, ids |-> << >>]
    /\ RunIdle
    /\ MergeIdle
    /\ ConcIdle

(***************************************************************************)
(* The command line (cli.py:95-166).                                       *)
(***************************************************************************)
\* result = app.invoke({"user_input": user_input})
StartRun ==
    /\ pc = "idle"
    /\ \E u \in UserInputs : state' = InitialState(u)
    /\ pc' = EntryPoint
    /\ stages' = << >>
    /\ raised' = NoError
    /\ io_log' = << >>
    /\ exec_hist' = NoExec
    /\ lookup_out' = NoLookup
    /\ cli_out' = NoOut
    /\ UNCHANGED << storeVars, alloc_log, mrgVars, concVars >>

\* the run returned or raised: print, and wait for the next request
cli_report ==
    /\ pc \in {"END", "raised"}
    /\ cli_out' =
          IF pc = "END"
          THEN [NoOut EXCEPT
                  !.kind = "answer",
                  !.draft = IF state.agent_response \in {Absent, Empty}
                            THEN "(LLM did not return a response)"
                            ELSE state.agent_response,
                  !.reply = IF state.final_response \in {Absent, Empty}
                            THEN "(No final response)"
                            ELSE state.final_response]
          ELSE IF raised.type = "RuntimeError"
          THEN [NoOut EXCEPT !.kind = "PROCESSING ERROR", !.error = raised]
          ELSE [NoOut EXCEPT !.kind = "SYSTEM ERROR", !.error = raised]
    /\ pc' = "idle"
    /\ state' = NoState
    /\ stages' = << >>
    /\ raised' = NoError
    /\ io_log' = << >>
    /\ exec_hist' = NoExec
    /\ UNCHANGED << storeVars, alloc_log, lookup_out, mrgVars, concVars >>

(***************************************************************************)
(* Node 1: process_input (flow_service.py:208-239).                        *)
(***************************************************************************)
\* payload of POST /v1/detect-encrypt (flow_service.py:212-217)
DetectRequest(st) ==
    Call("detect-encrypt", st.user_input, NoText, << >>, TENANT, << >>)

process_input ==
    /\ pc = "process_input"
    /\ stages' = Append(stages, "process_input")
    /\ \/ \E text \in RedactedTexts, bl \in DetectBundleLists, t \in Tenants :
             /\ io_log' = Append(io_log, DetectRequest(state))
             /\ state' = [state EXCEPT !.encrypted_input = text,
                                       !.bundles = bl,
                                       !.tenant_id = t]
             /\ pc' = NextNode("process_input")
             /\ raised' = NoError
       \/ /\ io_log' = Append(io_log, FailedCall(DetectRequest(state)))
          /\ raised' = RuntimeError(<< "Cryptor detect-encrypt failure" >>)
          /\ pc' = "raised"
          /\ state' = state
    /\ UNCHANGED << storeVars, exec_hist, alloc_log, lookup_out, cli_out, mrgVars, concVars >>

(***************************************************************************)
(* Node 2: determine_action (flow_service.py:242-279).                     *)
(***************************************************************************)
\* what of the state the prompt embeds (flow_service.py:247-248)
ClassifyPromptRaw(st) == st.user_input
ClassifyPrompt(st) == st.encrypted_input

\* return {**state, "action": json.dumps(action_data)} (flow_service.py:275)
WithActionOnly(st, action_data) ==
    [InitialState(st.user_input) EXCEPT !.action = JsonDumps(action_data)]
WithAction(st, action_data) == [st EXCEPT !.action = JsonDumps(action_data)]

determine_action ==
    /\ pc = "determine_action"
    /\ stages' = Append(stages, "determine_action")
    /\ \/ \E text \in ClassifierTexts :
             /\ io_log' = Append(io_log,
                    Call("llm-classify", ClassifyPrompt(state), NoText, << >>,
                         Absent, text))
             /\ IF ClassifyAccepts(text)
                THEN /\ state' = WithAction(state, ParsedObject(text))
                     /\ pc' = NextNode("determine_action")
                     /\ raised' = NoError
                ELSE /\ raised' = RuntimeError(<< "Language model action failure" >>)
                     /\ pc' = "raised"
                     /\ state' = state
       \/ \* generate_content raised
          /\ io_log' = Append(io_log,
                 FailedCall(Call("llm-classify", ClassifyPrompt(state), NoText,
                                 << >>, Absent, << >>)))
          /\ raised' = RuntimeError(<< "Language model action failure" >>)
          /\ pc' = "raised"
          /\ state' = state
    /\ UNCHANGED << storeVars, exec_hist, alloc_log, lookup_out, cli_out, mrgVars, concVars >>


(***************************************************************************)
(* Node 3: execute_action (flow_service.py:282-362).                       *)
(***************************************************************************)
\* action_data.get(name, "")
GetOr(value, default) == IF value = Absent THEN default ELSE value
GetIdOr(value, default) == IF value = AbsentId THEN default ELSE value

\* the bundles argument of create_order (flow_service.py:320)
CreateBundlesMerged(st) == MergeBundles(st.bundles, << >>)
CreateBundlesArg(st) == st.bundles

\* bundles the get_order branch contributes (flow_service.py:300-301)
LookupBundles(storage, order_id) == get_bundles(storage, order_id)

\* the lookup and error branches: (result, new_bundles); nothing is written
ReadOutcomeDefaultsToListing(action_data, orders, storage) ==
    IF action_data.action = "get_order"
    THEN [result |-> get_order(orders, GetIdOr(action_data.order_id, EmptyId)),
          new_bundles |->
              LookupBundles(storage, GetIdOr(action_data.order_id, EmptyId))]
    ELSE [result |-> get_all_orders(orders),
          new_bundles |->
              all_order_bundles(storage, get_all_orders(orders).orders)]
ReadOutcome(action_data, orders, storage) ==
    LET action_type == action_data.action
        order_id    == GetIdOr(action_data.order_id, EmptyId)
    IN  CASE action_type = "get_order" ->
               [result |-> get_order(orders, order_id),
                new_bundles |-> LookupBundles(storage, order_id)]
          [] action_type = "get_all_orders" ->
               [result |-> get_all_orders(orders),
                new_bundles |-> all_order_bundles(storage, get_all_orders(orders).orders)]
          [] OTHER ->
               [result |-> [NoResult EXCEPT
                               !.error = << "Unknown action: ", action_type >>],
                new_bundles |-> << >>]

execute_action ==
    /\ pc = "execute_action"
    /\ stages' = Append(stages, "execute_action")
    /\ LET action_data == JsonLoads(state.action)
           action_type == action_data.action
       IN  \/ /\ action_type # "create_order"
              /\ LET out == ReadOutcome(action_data, ORDERS_DB, BUNDLES_STORAGE)
                 IN  /\ state' = [state EXCEPT
                            !.tool_result = JsonDumps(out.result),
                            !.bundles = MergeBundles(state.bundles, out.new_bundles)]
                     /\ exec_hist' = [ran |-> TRUE, action_type |-> action_type,
                                      entry_bundles |-> state.bundles,
                                      new_bundles |-> out.new_bundles,
                                      order_id |-> GetIdOr(action_data.order_id, EmptyId),
                                      failed |-> FALSE]
              /\ pc' = NextNode("execute_action")
              /\ raised' = NoError
              /\ UNCHANGED << storeVars, alloc_log >>
           \/ /\ action_type = "create_order"
              /\ ORDER_COUNTER <= MaxOrders
              /\ \E db_io \in WriteOutcomes, bf_io \in WriteOutcomes, now \in Clock :
                   LET order == OrderRecord(GetOr(action_data.customer, Empty),
                                            GetOr(action_data.email, Empty),
                                            GetOr(action_data.phone, Empty),
                                            GetOr(action_data.address, Empty),
                                            GetOr(action_data.items, Empty),
                                            now)
                       out == create_order(ORDERS_DB, BUNDLES_STORAGE, ORDER_COUNTER,
                                           db_file, bundles_file, order,
                                           CreateBundlesArg(state), db_io, bf_io)
                   IN  /\ ORDERS_DB' = out.orders
                       /\ BUNDLES_STORAGE' = out.storage
                       /\ ORDER_COUNTER' = out.counter
                       /\ db_file' = out.db_file
                       /\ bundles_file' = out.bundles_file
                       /\ alloc_log' = [alloc_log EXCEPT
                                           !.ids = Append(@, out.order_id)]
                       /\ exec_hist' = [ran |-> TRUE, action_type |-> action_type,
                                        entry_bundles |-> state.bundles,
                                        new_bundles |-> << >>,
                                        order_id |-> out.order_id,
                                        failed |-> out.failed]
                       /\ IF out.failed
                          THEN /\ raised' = RuntimeError(<< "Business logic failure" >>)
                               /\ pc' = "raised"
                               /\ state' = state
                          ELSE /\ state' = [state EXCEPT
                                      !.tool_result = JsonDumps(out.result),
                                      !.bundles = MergeBundles(state.bundles, << >>)]
                               /\ pc' = NextNode("execute_action")
                               /\ raised' = NoError
    /\ UNCHANGED << io_log, lookup_out, cli_out, mrgVars, concVars >>

(***************************************************************************)
(* Node 4: format_response (flow_service.py:365-411).                      *)
(***************************************************************************)
\* the final decrypt call raised (flow_service.py:403-411): the inner
\* RuntimeError is caught and wrapped by the outer handler
FinalDecryptFailureReturnsDraft(st, agent_response) ==
    [raised |-> NoError, pc |-> NextNode("format_response"),
     state  |-> [st EXCEPT !.agent_response = agent_response,
                           !.final_response = agent_response]]
FinalDecryptFailure(st, agent_response) ==
    [raised |-> RuntimeError(<< "Response generation failed",
                                "Final response decrypt failed" >>),
     pc     |-> "raised",
     state  |-> st]

format_response ==
    /\ pc = "format_response"
    /\ stages' = Append(stages, "format_response")
    /\ LET draft_call == Call("llm-draft", state.encrypted_input,
                              state.tool_result, << >>, Absent, << >>)
       IN  \/ \* generate_content raised
              /\ io_log' = Append(io_log, FailedCall(draft_call))
              /\ raised' = RuntimeError(<< "Response generation failed" >>)
              /\ pc' = "raised"
              /\ state' = state
           \/ \E agent_response \in Drafts :
                LET decrypt_call == Call("decrypt", agent_response, NoText,
                                         state.bundles, state.tenant_id, << >>)
                IN  \/ \* the decrypt call failed
                       /\ io_log' = io_log \o << draft_call, FailedCall(decrypt_call) >>
                       /\ raised' = FinalDecryptFailure(state, agent_response).raised
                       /\ pc' = FinalDecryptFailure(state, agent_response).pc
                       /\ state' = FinalDecryptFailure(state, agent_response).state
                    \/ \E final_response \in Plaintexts :
                         /\ io_log' = io_log \o << draft_call, decrypt_call >>
                         /\ state' = [state EXCEPT
                                        !.agent_response = agent_response,
                                        !.final_response = final_response]
                         /\ pc' = NextNode("format_response")
                         /\ raised' = NoError
    /\ UNCHANGED << storeVars, exec_hist, alloc_log, lookup_out, cli_out, mrgVars, concVars >>

(***************************************************************************)
(* /decrypt ORD-XXX: get_order_decrypted (flow_service.py:129-166,         *)
(* cli.py:36-50, 117-123).                                                 *)
(***************************************************************************)
PlainOrder ==
    [customer |-> "John Smith", email |-> "john@example.com",
     phone |-> "+1-212-555-0100", address |-> "Boston", items |-> "20 roses",
     status |-> "processing", created_at |-> "2025-01-01 10:00"]

BundlesNote == "Bundles not found for decryption"

\* "if not bundles" (flow_service.py:137)
NoBundles(bundles) == bundles = << >>

\* the except branch (flow_service.py:163-166)
DecryptErrorResultBare(order, order_id) ==
    [NoResult EXCEPT !.order_id = order_id,
                     !.decrypt_error = << "Cryptor service error" >>]
DecryptErrorResult(order, order_id) ==
    [OrderResult(order, order_id) EXCEPT
        !.decrypt_error = << "Cryptor service error" >>]

get_order_decrypted ==
    /\ pc = "idle"
    /\ \E order_id \in RequestedIds \ {AbsentId} :
         LET order   == DictGet(ORDERS_DB, order_id, NoFields)
             bundles == get_bundles(BUNDLES_STORAGE, order_id)
             call    == Call("decrypt", Absent,
                             JsonDumps(OrderResult(order, AbsentId)), bundles,
                             TENANT, << >>)
         IN  IF ~DictHas(ORDERS_DB, order_id)
             THEN /\ lookup_out' = [called |-> TRUE, order_id |-> order_id,
                                    result |-> NotFoundResult]
                  /\ io_log' = << >>
             ELSE IF NoBundles(bundles)
             THEN /\ lookup_out' =
                        [called |-> TRUE, order_id |-> order_id,
                         result |-> [OrderResult(order, order_id) EXCEPT
                                        !.note = BundlesNote]]
                  /\ io_log' = << >>
             ELSE \/ /\ io_log' = << call >>
                     /\ lookup_out' =
                           [called |-> TRUE, order_id |-> order_id,
                            result |-> OrderResult(PlainOrder, order_id)]
                  \/ /\ io_log' = << FailedCall(call) >>
                     /\ lookup_out' =
                           [called |-> TRUE, order_id |-> order_id,
                            result |-> DecryptErrorResult(order, order_id)]
    /\ cli_out' = NoOut
    /\ UNCHANGED << storeVars, pc, state, stages, raised, exec_hist, alloc_log, mrgVars, concVars >>

(***************************************************************************)
(* The process ends and is started again: load_db reads what is on disk    *)
(* (flow_service.py:62-89, 433).                                           *)
(***************************************************************************)
Restart ==
    /\ pc = "idle"
    /\ ORDERS_DB' = load_orders(db_file)
    /\ ORDER_COUNTER' = load_counter(db_file)
    /\ BUNDLES_STORAGE' = load_bundles(bundles_file)
    /\ alloc_log' = [start |-> load_counter(db_file), ids |-> << >>]
    /\ lookup_out' = NoLookup
    /\ cli_out' = NoOut
    /\ io_log' = << >>
    /\ UNCHANGED << db_file, bundles_file, pc, state, stages, raised, exec_hist, mrgVars, concVars >>

Next ==
    \/ StartRun
    \/ process_input
    \/ determine_action
    \/ execute_action
    \/ format_response
    \/ cli_report
    \/ get_order_decrypted
    \/ Restart

Spec == Init /\ [][Next]_vars


(***************************************************************************)
(* The bundle merge alone: the bundles of the pipeline state and the       *)
(* bundles an action contributes are drawn from all bundle lists up to     *)
(* MaxBundles, and the merge of flow_service.py:326-344 is applied.        *)
(***************************************************************************)
BundleLists == SeqsUpTo(AllBundles, MaxBundles)
Contributions == {<< >>} \cup {<< b >> : b \in AllBundles}

MergeInit ==
    /\ db_file = AbsentDbFile
    /\ bundles_file = AbsentBundlesFile
    /\ ORDERS_DB = EmptyDict
    /\ ORDER_COUNTER = 1
    /\ BUNDLES_STORAGE = EmptyDict
    /\ alloc_log = [start |-> 1, ids |-> << >>]
    /\ RunIdle
    /\ ConcIdle
    /\ mrg_in \in BundleLists
    /\ mrg_new = << >>
    /\ mrg_out = << >>
    /\ mrg_done = FALSE

\* the action contributes nothing or one bundle
MergeContributed ==
    /\ ~mrg_done
    /\ \E new \in Contributions :
         /\ mrg_new' = new
         /\ mrg_out' = MergeBundles(mrg_in, new)
    /\ mrg_done' = TRUE
    /\ mrg_in' = mrg_in
    /\ UNCHANGED << storeVars, runVars, concVars >>

\* the action contributes the very bundles of the state (a lookup of the
\* order the run itself stored)
MergeSelf ==
    /\ ~mrg_done
    /\ mrg_new' = mrg_in
    /\ mrg_out' = MergeBundles(mrg_in, mrg_in)
    /\ mrg_done' = TRUE
    /\ mrg_in' = mrg_in
    /\ UNCHANGED << storeVars, runVars, concVars >>

MergeNext == MergeContributed \/ MergeSelf

MergeSpec == MergeInit /\ [][MergeNext]_vars

(***************************************************************************)
(* create_order called from two threads of one process                     *)
(* (flow_service.py:177-202, 91-107).  The function takes no lock, so the  *)
(* threads interleave between its statements; ORDER_COUNTER += 1 is a load *)
(* followed by a store.  Each write of a file is one step with the         *)
(* outcomes of WriteOutcomes.                                              *)
(***************************************************************************)
\* the arguments of caller c
CallerOrder(c) ==
    OrderRecord("[PERSON_1]", "[EMAIL_1]", "[PHONE_1]", "[LOCATION_1]",
                IF c = 1 THEN "20 roses" ELSE "5 tulips", "2025-01-01 10:00")
CallerBundles(c) == IF c = 1 THEN << LivePerson >> ELSE << LivePerson2 >>

ConcInit ==
    /\ db_file = AbsentDbFile
    /\ bundles_file = AbsentBundlesFile
    /\ ORDERS_DB = load_orders(db_file)
    /\ ORDER_COUNTER = load_counter(db_file)
    /\ BUNDLES_STORAGE = load_bundles(bundles_file)
    /\ alloc_log = [start |-> ORDER_COUNTER, ids |-> << >>]
    /\ RunIdle
    /\ MergeIdle
    /\ callers = [c \in Callers |-> [IdleCaller EXCEPT !.pc = "alloc"]]

\* caller c moves to position next
Goto(c, next) == [callers EXCEPT ![c].pc = next]

\* order_id = f"ORD-{ORDER_COUNTER:03d}"  (flow_service.py:183)
conc_alloc(c) ==
    /\ callers[c].pc = "alloc"
    /\ callers' = [callers EXCEPT ![c].order_id = OrderId(ORDER_COUNTER),
                                  ![c].pc = "incr_load"]
    /\ UNCHANGED << storeVars, runVars, mrgVars >>

\* ORDER_COUNTER += 1: read the global  (flow_service.py:184)
conc_incr_load(c) ==
    /\ callers[c].pc = "incr_load"
    /\ callers' = [callers EXCEPT ![c].loaded = ORDER_COUNTER,
                                  ![c].pc = "incr_store"]
    /\ UNCHANGED << storeVars, runVars, mrgVars >>

\* ORDER_COUNTER += 1: write the global  (flow_service.py:184)
conc_incr_store(c) ==
    /\ callers[c].pc = "incr_store"
    /\ ORDER_COUNTER' = NextCounter(callers[c].loaded)
    /\ callers' = Goto(c, "insert")
    /\ UNCHANGED << ORDERS_DB, BUNDLES_STORAGE, db_file, bundles_file, runVars, mrgVars >>

\* ORDERS_DB[order_id] = {...}  (flow_service.py:188-196)
conc_insert(c) ==
    /\ callers[c].pc = "insert"
    /\ ORDERS_DB' = DictSet(ORDERS_DB, callers[c].order_id, CallerOrder(c))
    /\ callers' = Goto(c, "save_db")
    /\ UNCHANGED << BUNDLES_STORAGE, ORDER_COUNTER, db_file, bundles_file, runVars, mrgVars >>

\* save_db()  (flow_service.py:198, 91-100)
conc_save_db(c) ==
    /\ callers[c].pc = "save_db"
    /\ \E io \in WriteOutcomes :
          /\ db_file' = save_db(io, ORDERS_DB, ORDER_COUNTER, db_file)
          /\ callers' = Goto(c, IF io = "ok" THEN "bundles_set" ELSE "raised")
    /\ UNCHANGED << ORDERS_DB, BUNDLES_STORAGE, ORDER_COUNTER, bundles_file, runVars, mrgVars >>

\* save_bundles: BUNDLES_STORAGE[order_id] = bundles  (flow_service.py:104)
conc_bundles_set(c) ==
    /\ callers[c].pc = "bundles_set"
    /\ BUNDLES_STORAGE' = DictSet(BUNDLES_STORAGE, callers[c].order_id, CallerBundles(c))
    /\ callers' = Goto(c, "bundles_write")
    /\ UNCHANGED << ORDERS_DB, ORDER_COUNTER, db_file, bundles_file, runVars, mrgVars >>

\* save_bundles: json.dump(BUNDLES_STORAGE, f)  (flow_service.py:105-106)
conc_bundles_write(c) ==
    /\ callers[c].pc = "bundles_write"
    /\ \E io \in WriteOutcomes :
          /\ bundles_file' = write_bundles_file(io, BUNDLES_STORAGE, bundles_file)
          /\ callers' = Goto(c, IF io = "ok" THEN "done" ELSE "raised")
    /\ UNCHANGED << ORDERS_DB, BUNDLES_STORAGE, ORDER_COUNTER, db_file, runVars, mrgVars >>

ConcNext ==
    \E c \in Callers :
        \/ conc_alloc(c)
        \/ conc_incr_load(c)
        \/ conc_incr_store(c)
        \/ conc_insert(c)
        \/ conc_save_db(c)
        \/ conc_bundles_set(c)
        \/ conc_bundles_write(c)

ConcSpec == ConcInit /\ [][ConcNext]_vars


(***************************************************************************)
(* Properties.                                                             *)
(***************************************************************************)
StageOrder ==
    << "process_input", "determine_action", "execute_action", "format_response" >>
IsPrefix(s, t) == Len(s) <= Len(t) /\ SubSeq(t, 1, Len(s)) = s
ClassifyCalls == {i \in 1..Len(io_log) : io_log[i].svc = "llm-classify"}
KnownActions == {"get_order", "get_all_orders", "create_order"}

\* C1: the four nodes run in the order process_input, determine_action,
\* execute_action, format_response, each at most once; a node starts only
\* when its predecessor has returned its part of the state; after a node has
\* raised, no further node of that run executes.
C1_StageInv ==
    /\ IsPrefix(stages, StageOrder)
    /\ pc \in Nodes =>
          /\ Len(stages) < Len(StageOrder)
          /\ pc = StageOrder[Len(stages) + 1]
          /\ raised = NoError
    /\ Len(stages) >= 2 => state.encrypted_input # Absent
    /\ Len(stages) >= 3 => state.action # NoText
    /\ Len(stages) >= 4 => state.tool_result # NoText
    /\ pc = "END" => stages = StageOrder /\ state.final_response # Absent
    /\ pc = "raised" => Len(stages) >= 1 /\ raised.type # "none"
C1_LinearPipeline ==
    /\ []C1_StageInv
    /\ [][pc = "raised" => (stages' = stages \/ pc' = "idle")]_vars
    /\ [][Len(stages') > Len(stages) =>
             /\ stages' = Append(stages, pc)
             /\ pc' \in {"raised", "END"} \cup Nodes]_vars
C1_Witness == pc = "END" /\ stages = StageOrder /\ raised = NoError

\* C2: whenever the model's output does not parse as a JSON object, or its
\* action is not get_order, get_all_orders or create_order, determine_action
\* raises and execute_action never runs in that run.
C2_ClassificationHardFailure ==
    \A i \in ClassifyCalls :
        ( \/ ~ParsesAsObject(io_log[i].reply)
          \/ ParsedObject(io_log[i].reply).action \notin KnownActions ) =>
            /\ stages = << "process_input", "determine_action" >>
            /\ pc = "raised"

\* C3: in a process that started with an empty store, the k-th call of
\* create_order is given ORD-00k: no number is skipped, none is given twice.
C3_ExpectedId(k) == << "O", "R", "D", "-", "0", "0", DigitChar[k + 1] >>
C3_SequentialIds ==
    /\ ORDER_COUNTER = alloc_log.start + Len(alloc_log.ids)
    /\ alloc_log.start = 1 =>
          /\ \A k \in 1..Len(alloc_log.ids) : alloc_log.ids[k] = C3_ExpectedId(k)
          /\ \A j, k \in 1..Len(alloc_log.ids) :
                j # k => alloc_log.ids[j] # alloc_log.ids[k]
          /\ DictKeys(ORDERS_DB) = {alloc_log.ids[k] : k \in 1..Len(alloc_log.ids)}
C3_Witness ==
    /\ alloc_log.start = 1
    /\ Len(alloc_log.ids) >= 2
    /\ alloc_log.ids[2] = C3_ExpectedId(2)

\* C4: in every state after a create returned or raised, an identifier is a
\* key of the order store if and only if it is a key of the bundle store.
C4_OrderAndBundlesTogether ==
    DictKeys(ORDERS_DB) = DictKeys(BUNDLES_STORAGE)

\* C5: when execute_action has run create_order and returned, the bundle set
\* stored for the new identifier is the bundle list the state had on entry,
\* the stored order has status "processing" and the classifier's field
\* values, the result is {order_id, status: "created"}, and the action
\* contributed no bundles to the merge.
C5_CreateDone ==
    /\ exec_hist.ran
    /\ exec_hist.action_type = "create_order"
    /\ ~exec_hist.failed
C5_CreateStoresEntryBundles ==
    C5_CreateDone =>
        LET order_id    == exec_hist.order_id
            action_data == JsonLoads(state.action)
            order       == DictGet(ORDERS_DB, order_id, NoFields)
        IN  /\ order_id = alloc_log.ids[Len(alloc_log.ids)]
            /\ DictHas(BUNDLES_STORAGE, order_id)
            /\ DictGet(BUNDLES_STORAGE, order_id, << >>) = exec_hist.entry_bundles
            /\ DictHas(ORDERS_DB, order_id)
            /\ order.status = "processing"
            /\ order.customer = GetOr(action_data.customer, Empty)
            /\ order.email = GetOr(action_data.email, Empty)
            /\ order.phone = GetOr(action_data.phone, Empty)
            /\ order.address = GetOr(action_data.address, Empty)
            /\ order.items = GetOr(action_data.items, Empty)
            /\ JsonLoads(state.tool_result) =
                   [NoResult EXCEPT !.order_id = order_id, !.status = "created"]
            /\ exec_hist.new_bundles = << >>
            /\ state.bundles = MergeBundles(exec_hist.entry_bundles, << >>)
C5_Witness ==
    /\ C5_CreateDone
    /\ exec_hist.entry_bundles = << LivePerson2, KeylessBundle, StoredOnly >>
    /\ DictGet(BUNDLES_STORAGE, exec_hist.order_id, << >>) = exec_hist.entry_bundles
    /\ state.bundles # exec_hist.entry_bundles


\* a bundle list in which every bundle has a usable identity key and no two
\* bundles share one
UsableKey(b) == bundle_key(b) \notin {Absent, Empty}
Canonical(B) ==
    /\ \A i \in 1..Len(B) : UsableKey(B[i])
    /\ \A i, j \in 1..Len(B) : i # j => bundle_key(B[i]) # bundle_key(B[j])

\* C6 (as stated): for every bundle list B, merging B with itself yields B.
C6_SelfMergeIsIdentity ==
    (mrg_done /\ mrg_new = mrg_in) => mrg_out = mrg_in

\* C6 (amended): merging B with itself yields the merge of B alone, and that
\* is B itself whenever every bundle of B has a usable identity key and no
\* two bundles of B share a key.
C6_SelfMergeIsDedup ==
    (mrg_done /\ mrg_new = mrg_in) =>
        /\ mrg_out = MergeBundles(mrg_in, << >>)
        /\ Canonical(mrg_in) => mrg_out = mrg_in
        /\ Canonical(mrg_out)
C6_Witness ==
    /\ mrg_done
    /\ mrg_new = mrg_in
    /\ Len(mrg_in) = 2
    /\ Canonical(mrg_in)
    /\ mrg_out = mrg_in

\* C7: of two bundles that share an identity key and differ in payload the
\* later one in traversal order (state bundles, then contributed bundles)
\* is the only one in the output, whichever of the two it is.
C7_Combined == mrg_in \o mrg_new
C7_LastWriteWins ==
    (mrg_done /\ Len(C7_Combined) = 2) =>
        LET b1 == C7_Combined[1]
            b2 == C7_Combined[2]
        IN  ( /\ UsableKey(b1)
              /\ bundle_key(b1) = bundle_key(b2)
              /\ b1.payload # b2.payload )
            => mrg_out = << b2 >>
C7_Witness ==
    /\ mrg_done
    /\ mrg_in = << LivePerson >>
    /\ mrg_new = << Bundle(Absent, "[PERSON_1]", "c2") >>
    /\ mrg_out = mrg_new

\* C8: a bundle with neither a placeholder nor an id is never in the merge
\* output, wherever it stood in the state bundles or the contributed
\* bundles, and the output is what it would be had the bundle not been there.
Keyless(b) == b.placeholder = Absent /\ b.id = Absent
NotKeyless(b) == ~Keyless(b)
C8_KeylessDropped ==
    mrg_done =>
        /\ \A i \in 1..Len(mrg_out) : ~Keyless(mrg_out[i])
        /\ mrg_out = MergeBundles(SelectSeq(mrg_in, NotKeyless),
                                  SelectSeq(mrg_new, NotKeyless))
C8_Witness ==
    /\ mrg_done
    /\ Len(mrg_in) = 2
    /\ Keyless(mrg_in[1])
    /\ UsableKey(mrg_in[2])
    /\ Len(mrg_new) = 1
    /\ Keyless(mrg_new[1])
    /\ mrg_out = << mrg_in[2] >>

\* C9: when execute_action runs get_order for an identifier that is not a
\* key of the order store, the result is {error: "Order not found"}, the
\* action contributes no bundles, and the bundles after the stage are the
\* dedup of the bundles that entered it.
C9_LookupMissContributesNothing ==
    ( /\ exec_hist.ran
      /\ exec_hist.action_type = "get_order"
      /\ ~DictHas(ORDERS_DB, exec_hist.order_id) )
    => /\ JsonLoads(state.tool_result) = NotFoundResult
       /\ exec_hist.new_bundles = << >>
       /\ state.bundles = MergeBundles(exec_hist.entry_bundles, << >>)

\* C10: a lookup of an existing order whose bundle set is empty or missing
\* returns the stored fields with the "bundles not found" note and makes no
\* decrypt call, through get_order_decrypted and through the pipeline's
\* get_order action alike.
C10_DegradedLookupIsAnnotated ==
    /\ ( /\ lookup_out.called
         /\ DictHas(ORDERS_DB, lookup_out.order_id)
         /\ get_bundles(BUNDLES_STORAGE, lookup_out.order_id) = << >> )
       => /\ lookup_out.result.note = BundlesNote
          /\ lookup_out.result.fields = DictGet(ORDERS_DB, lookup_out.order_id, NoFields)
          /\ io_log = << >>
    /\ ( /\ exec_hist.ran
         /\ exec_hist.action_type = "get_order"
         /\ DictHas(ORDERS_DB, exec_hist.order_id)
         /\ get_bundles(BUNDLES_STORAGE, exec_hist.order_id) = << >> )
       => /\ JsonLoads(state.tool_result).note = BundlesNote
          /\ JsonLoads(state.tool_result).fields =
                 DictGet(ORDERS_DB, exec_hist.order_id, NoFields)


(***************************************************************************)
(* Failure propagation, frame conditions and the merged bundle set.        *)
(***************************************************************************)
LastCall == io_log[Len(io_log)]

\* the run's last outbound call was the final decrypt, and it failed
FinalDecryptFailed ==
    /\ pc # "idle"
    /\ Len(stages) = 4
    /\ io_log # << >>
    /\ LastCall.svc = "decrypt"
    /\ LastCall.failed

\* C11: when the decrypt call for the final response fails, the run fails with
\* a runtime error: the state carries neither the draft nor any plaintext
\* reply, and what the caller receives is the processing error with no draft
\* and no reply in it.
C11_FinalDecryptFailureFailsRun ==
    /\ [](FinalDecryptFailed =>
            /\ pc = "raised"
            /\ raised.type = "RuntimeError"
            /\ state.agent_response = Absent
            /\ state.final_response = Absent)
    /\ [][(FinalDecryptFailed /\ pc' = "idle") =>
            /\ cli_out'.kind = "PROCESSING ERROR"
            /\ cli_out'.error = raised
            /\ cli_out'.draft = Absent
            /\ cli_out'.reply = Absent]_vars

C11_Witness ==
    /\ cli_out.kind = "PROCESSING ERROR"
    /\ cli_out.error.msg = << "Response generation failed",
                              "Final response decrypt failed" >>
    /\ cli_out.draft = Absent
    /\ cli_out.reply = Absent

\* the lookup's decrypt call was made and failed
LookupDecryptFailed ==
    /\ lookup_out.called
    /\ io_log # << >>
    /\ LastCall.svc = "decrypt"
    /\ LastCall.failed
    /\ pc = "idle"

\* C12: a decrypt failure during get_order_decrypted raises nothing and
\* returns the order with its identifier, every stored field at its stored
\* (placeholder) value and a decrypt_error annotation carrying the reason;
\* the lookup leaves the order store, bundle store and counter unchanged.
C12_LookupDecryptFailureRecoverable ==
    /\ [](LookupDecryptFailed =>
            /\ raised = NoError
            /\ DictHas(ORDERS_DB, lookup_out.order_id)
            /\ lookup_out.result.order_id = lookup_out.order_id
            /\ lookup_out.result.fields =
                   DictGet(ORDERS_DB, lookup_out.order_id, NoFields)
            /\ lookup_out.result.fields # PlainOrder
            /\ lookup_out.result.decrypt_error # << >>
            /\ lookup_out.result.error = << >>)
    /\ [][LookupDecryptFailed' /\ ~LookupDecryptFailed =>
            /\ ORDERS_DB' = ORDERS_DB
            /\ BUNDLES_STORAGE' = BUNDLES_STORAGE
            /\ ORDER_COUNTER' = ORDER_COUNTER
            /\ db_file' = db_file
            /\ bundles_file' = bundles_file]_vars

C12_Witness ==
    /\ LookupDecryptFailed
    /\ lookup_out.result.decrypt_error = << "Cryptor service error" >>
    /\ lookup_out.result.fields = DictGet(ORDERS_DB, OrderId(1), NoFields)

\* a stage of the running pipeline has failed: a collaborator call raised, or
\* the stage's own logic did
StageFailed ==
    /\ pc # "idle"
    /\ \/ pc = "raised"
       \/ exec_hist.failed
       \/ \E i \in 1..Len(io_log) : io_log[i].failed

\* C13: every failure of a pipeline stage reaches the caller as RuntimeError:
\* a failed stage ends the run raised with that type, the caller reports it on
\* its "PROCESSING ERROR" branch, and the "SYSTEM ERROR" branch is never taken.
C13_StageFailuresAreRuntimeErrors ==
    /\ [](/\ StageFailed => (pc = "raised" /\ raised.type = "RuntimeError")
          /\ cli_out.kind # "SYSTEM ERROR"
          /\ cli_out.kind = "PROCESSING ERROR" =>
                 cli_out.error.type = "RuntimeError")
    /\ [][(StageFailed /\ pc' = "idle") =>
              (cli_out'.kind = "PROCESSING ERROR" /\ cli_out'.error = raised)]_vars

C13_Witness ==
    /\ cli_out.kind = "PROCESSING ERROR"
    /\ cli_out.error = RuntimeError(<< "Business logic failure" >>)
    /\ pc = "idle"

\* the execute stage has just completed a get_all_orders action
ListedAll ==
    /\ exec_hist.ran
    /\ exec_hist.action_type = "get_all_orders"
    /\ pc = "format_response"

\* bundle b is a member (same key, same payload) of the list
MemberOf(b, bundles) == \E k \in 1..Len(bundles) : bundles[k] = b

\* C14: after the execute stage runs get_all_orders, every bundle with an
\* identity key in the stored bundle set of every order in the store is a
\* member of the state's bundles handed to the render stage.
C14_ListingCoversEveryStoredBundle ==
    ListedAll =>
        \A i \in 1..Len(ORDERS_DB) :
            LET stored == get_bundles(BUNDLES_STORAGE, ORDERS_DB[i].k)
            IN  \A j \in 1..Len(stored) :
                    UsableKey(stored[j]) => MemberOf(stored[j], state.bundles)

\* the execute stage has just returned
ExecuteReturned ==
    /\ exec_hist.ran
    /\ ~exec_hist.failed
    /\ pc = "format_response"

\* what the merge received: the state's bundles on entry, then the bundles
\* the action contributed
ExecuteCombined == exec_hist.entry_bundles \o exec_hist.new_bundles

\* C15: every identity key carried by a bundle of the state on entry to the
\* execute stage, or by a bundle the action contributed, is the identity key
\* of some bundle of the state after the stage; only the count may shrink.
C15_CoverageNeverShrinks ==
    ExecuteReturned =>
        /\ \A i \in 1..Len(ExecuteCombined) :
               UsableKey(ExecuteCombined[i]) =>
                   \E k \in 1..Len(state.bundles) :
                       bundle_key(state.bundles[k]) = bundle_key(ExecuteCombined[i])
        /\ Len(state.bundles) <= Len(ExecuteCombined)

\* a key arrives only with a contributed bundle, and the count shrinks
C15_Witness ==
    /\ ExecuteReturned
    /\ Len(state.bundles) < Len(ExecuteCombined)
    /\ \E i \in 1..Len(exec_hist.new_bundles) :
          /\ UsableKey(exec_hist.new_bundles[i])
          /\ \A j \in 1..Len(exec_hist.entry_bundles) :
                 bundle_key(exec_hist.entry_bundles[j]) #
                     bundle_key(exec_hist.new_bundles[i])

\* where a key first occurs in (state bundles followed by contributed bundles)
FirstOccurrence(key) ==
    Min({i \in 1..Len(C7_Combined) : bundle_key(C7_Combined[i]) = key})

\* C16: the merged bundles are duplicate-free: no two output bundles share an
\* identity key, every output bundle has a non-empty identity key, and the
\* output lists the usable keys of (state bundles followed by contributed
\* bundles) in the order of their first occurrence.
C16_DuplicateFreeInFirstOccurrenceOrder ==
    mrg_done =>
        /\ \A i, j \in 1..Len(mrg_out) :
               i # j => bundle_key(mrg_out[i]) # bundle_key(mrg_out[j])
        /\ \A i \in 1..Len(mrg_out) : UsableKey(mrg_out[i])
        /\ {bundle_key(mrg_out[i]) : i \in 1..Len(mrg_out)} =
               {bundle_key(C7_Combined[i]) :
                    i \in {n \in 1..Len(C7_Combined) : UsableKey(C7_Combined[n])}}
        /\ \A i, j \in 1..Len(mrg_out) :
               i < j => FirstOccurrence(bundle_key(mrg_out[i])) <
                            FirstOccurrence(bundle_key(mrg_out[j]))

\* keys A, B in the state and a contributed bundle that repeats A: the
\* overwritten key keeps its first position
C16_Witness ==
    /\ mrg_done
    /\ Len(mrg_in) = 2
    /\ Len(mrg_new) = 1
    /\ UsableKey(mrg_in[1])
    /\ UsableKey(mrg_in[2])
    /\ bundle_key(mrg_in[1]) # bundle_key(mrg_in[2])
    /\ bundle_key(mrg_new[1]) = bundle_key(mrg_in[1])
    /\ mrg_new[1] # mrg_in[1]
    /\ mrg_out = << mrg_new[1], mrg_in[2] >>

StoresUnchanged ==
    /\ ORDERS_DB' = ORDERS_DB
    /\ BUNDLES_STORAGE' = BUNDLES_STORAGE
    /\ ORDER_COUNTER' = ORDER_COUNTER
    /\ db_file' = db_file
    /\ bundles_file' = bundles_file

\* the step is the execute stage on an action other than create_order
ExecuteLookupStep ==
    /\ pc = "execute_action"
    /\ pc' # pc
    /\ JsonLoads(state.action).action # "create_order"

\* the step is a call of get_order_decrypted
DecryptedLookupStep ==
    /\ pc = "idle"
    /\ pc' = "idle"
    /\ lookup_out'.called

StoresOnlyGrow ==
    /\ DictKeys(ORDERS_DB) \subseteq DictKeys(ORDERS_DB')
    /\ DictKeys(BUNDLES_STORAGE) \subseteq DictKeys(BUNDLES_STORAGE')
    /\ \A id \in DictKeys(ORDERS_DB) :
           DictGet(ORDERS_DB', id, NoFields) = DictGet(ORDERS_DB, id, NoFields)

\* C17: the execute stage's get_order, get_all_orders and unknown-action
\* branches and get_order_decrypted leave the order store, the bundle store
\* and the counter unchanged; every operation of the running service only
\* adds keys to the two stores and never modifies an existing order record.
\* (Restart is the start of a new process from the files, not an operation.)
C17_LookupsDoNotMutate ==
    [][/\ ExecuteLookupStep => StoresUnchanged
       /\ DecryptedLookupStep => StoresUnchanged
       /\ Restart \/ StoresOnlyGrow]_vars

\* a listing has run on a store that holds two orders and their bundle sets
C17_Witness ==
    /\ ExecuteReturned
    /\ exec_hist.action_type \in {"get_order", "get_all_orders"}
    /\ Len(ORDERS_DB) >= 2
    /\ Len(BUNDLES_STORAGE) >= 2

\* C18: each stage changes only its own fields of the pipeline state: stage 1
\* sets encrypted_input, bundles and tenant_id and leaves the rest; stage 2
\* changes only action; stage 3 only tool_result and bundles; stage 4 only
\* agent_response and final_response.  So what a stage set is identical in
\* every later state of the run.
C18_StagesChangeOnlyOwnFields ==
    [][/\ pc = "process_input" =>
            state' = [state EXCEPT !.encrypted_input = state'.encrypted_input,
                                   !.bundles = state'.bundles,
                                   !.tenant_id = state'.tenant_id]
       /\ pc = "determine_action" =>
            state' = [state EXCEPT !.action = state'.action]
       /\ pc = "execute_action" =>
            state' = [state EXCEPT !.tool_result = state'.tool_result,
                                   !.bundles = state'.bundles]
       /\ pc = "format_response" =>
            state' = [state EXCEPT !.agent_response = state'.agent_response,
                                   !.final_response = state'.final_response]]_vars

\* a run in which all four stages have written their fields
C18_Witness ==
    /\ pc = "END"
    /\ stages = StageOrder
    /\ state.encrypted_input # Absent
    /\ state.bundles # << >>
    /\ state.action # << >>
    /\ state.tool_result # << >>
    /\ state.final_response # Absent

\* the request of a logged call, without its outcome
Request(call) == [call EXCEPT !.reply = << >>, !.failed = FALSE]

\* C19: within a run the only request that carries user_input is the
\* detect-encrypt call, the first one; the classification prompt, the drafting
\* prompt and the final decrypt request are functions of encrypted_input,
\* tool_result, the agent draft, bundles and tenant_id alone, so runs that
\* differ only in raw text and get the same redaction output send the same
\* requests to the language model.
C19_RawTextStaysAtIngress ==
    (pc # "idle") =>
        \A i \in 1..Len(io_log) :
            LET call == io_log[i]
            IN  /\ (i = 1) <=> (call.svc = "detect-encrypt")
                /\ call.svc = "detect-encrypt" =>
                       Request(call) =
                           Call("detect-encrypt", state.user_input, NoText,
                                << >>, TENANT, << >>)
                /\ call.svc = "llm-classify" =>
                       Request(call) =
                           Call("llm-classify", state.encrypted_input, NoText,
                                << >>, Absent, << >>)
                /\ call.svc = "llm-draft" =>
                       Request(call) =
                           Call("llm-draft", state.encrypted_input,
                                state.tool_result, << >>, Absent, << >>)
                /\ call.svc = "decrypt" =>
                       \E draft \in Drafts :
                           /\ pc = "END" => draft = state.agent_response
                           /\ Request(call) =
                                  Call("decrypt", draft, NoText, state.bundles,
                                       state.tenant_id, << >>)

\* a completed run: all four requests were sent, and the redacted text is
\* not the raw text
C19_Witness ==
    /\ pc = "END"
    /\ Len(io_log) = 4
    /\ io_log[2].svc = "llm-classify"
    /\ io_log[3].svc = "llm-draft"
    /\ io_log[4].svc = "decrypt"
    /\ state.user_input # state.encrypted_input
    /\ io_log[2].text = state.encrypted_input

\* the execute stage has run on an action that is none of the three known
UnknownActionExecuted ==
    /\ exec_hist.ran
    /\ exec_hist.action_type \notin KnownActions
    /\ Len(stages) = 3

\* C20: on an action value other than get_order, get_all_orders and
\* create_order the execute stage does not raise: tool_result is the error
\* result naming the action, no bundle is contributed, the stores and the
\* counter are unchanged, and the pipeline proceeds to the render stage.
C20_UnknownActionIsErrorResult ==
    /\ [](UnknownActionExecuted =>
            /\ pc = "format_response"
            /\ raised = NoError
            /\ ~exec_hist.failed
            /\ state.tool_result =
                   JsonDumps([NoResult EXCEPT
                       !.error = << "Unknown action: ", exec_hist.action_type >>])
            /\ exec_hist.new_bundles = << >>
            /\ state.bundles = MergeBundles(exec_hist.entry_bundles, << >>))
    /\ [][(/\ pc = "execute_action"
           /\ JsonLoads(state.action).action \notin KnownActions) =>
              /\ StoresUnchanged
              /\ pc' \in {"execute_action", "format_response"}]_vars

\* the classifier answered cancel_order while the store holds an order
C20_Witness ==
    /\ UnknownActionExecuted
    /\ exec_hist.action_type = "cancel_order"
    /\ pc = "format_response"
    /\ Len(ORDERS_DB) >= 1
    /\ state.bundles # << >>

\* both concurrent creates were given the same identifier
SameId ==
    /\ callers[1].order_id # AbsentId
    /\ callers[1].order_id = callers[2].order_id

\* caller c has executed ORDERS_DB[order_id] = {...}
Inserted(c) ==
    callers[c].pc \in {"save_db", "bundles_set", "bundles_write", "done", "raised"}

\* caller c has executed BUNDLES_STORAGE[order_id] = bundles
BundlesSet(c) == callers[c].pc \in {"bundles_write", "done"}

\* caller c is not inside create_order: it has returned or raised
Returned(c) == callers[c].pc \in {"done", "raised"}

\* C21: create_order is not atomic under concurrent callers.  When two
\* interleaved creates were given the same identifier, the order store holds
\* one order under it, the record of one caller having overwritten the
\* other's, and likewise the bundle store; when the identifiers differ both
\* orders are stored; and a create that starts after the other has returned
\* or raised (the single-threaded case) is given a fresh identifier.
C21_CreateNotAtomicUnderConcurrency ==
    /\ []((SameId /\ Inserted(1) /\ Inserted(2)) =>
            /\ Len(ORDERS_DB) = 1
            /\ ORDERS_DB[1].k = callers[1].order_id
            /\ ORDERS_DB[1].v \in {CallerOrder(1), CallerOrder(2)})
    /\ []((SameId /\ BundlesSet(1) /\ BundlesSet(2)) =>
            /\ Len(BUNDLES_STORAGE) = 1
            /\ BUNDLES_STORAGE[1].k = callers[1].order_id
            /\ BUNDLES_STORAGE[1].v \in {CallerBundles(1), CallerBundles(2)})
    /\ [](\A c \in Callers :
            (~SameId /\ Inserted(1) /\ Inserted(2)) =>
                DictGet(ORDERS_DB, callers[c].order_id, NoFields) = CallerOrder(c))
    /\ [][\A c, o \in Callers :
            (/\ c # o
             /\ Returned(o)
             /\ callers[c].pc = "alloc"
             /\ callers'[c].pc = "incr_load") =>
                /\ callers'[c].order_id # callers[o].order_id
                /\ ~DictHas(ORDERS_DB, callers'[c].order_id)]_vars

\* both creates returned normally with the same identifier, and the store
\* holds caller 2's order with caller 1's bundle set: caller 1's order and
\* caller 2's bundle set were overwritten
C21_Witness ==
    /\ callers[1].pc = "done"
    /\ callers[2].pc = "done"
    /\ SameId
    /\ ORDERS_DB = << [k |-> OrderId(1), v |-> CallerOrder(2)] >>
    /\ BUNDLES_STORAGE = << [k |-> OrderId(1), v |-> CallerBundles(1)] >>

\* a create_order run whose execute stage returned has failed in the render
\* stage (drafting or final decrypt)
CreateFailedInRender ==
    /\ pc = "raised"
    /\ Len(stages) = 4
    /\ exec_hist.ran
    /\ exec_hist.action_type = "create_order"
    /\ ~exec_hist.failed

\* the step starts a run, runs stage 1 or stage 2, or reports the outcome
BeforeOrAfterExecute ==
    \/ pc = "idle" /\ pc' = EntryPoint
    \/ pc \in {"process_input", "determine_action", "format_response"}
    \/ pc \in {"END", "raised"}

\* the step is the execute stage on a create_order action
ExecuteCreateStep ==
    /\ pc = "execute_action"
    /\ pc' # pc
    /\ JsonLoads(state.action).action = "create_order"

\* C22: only the execute stage writes, and nothing undoes it.  A run that
\* fails in stage 1 or stage 2 leaves the order store, bundle store, counter
\* and files as they were; a create_order run that fails in stage 4 leaves
\* the new order, its bundle set and the advanced counter in place; and every
\* create, a re-submitted one included, takes the identifier of the current
\* counter, so after such a failure it makes a second order with the next
\* identifier beside the first.
C22_NoRollbackAfterExecute ==
    /\ [](CreateFailedInRender =>
            /\ DictHas(ORDERS_DB, exec_hist.order_id)
            /\ get_bundles(BUNDLES_STORAGE, exec_hist.order_id) =
                   exec_hist.entry_bundles
            /\ DictHas(BUNDLES_STORAGE, exec_hist.order_id)
            /\ exec_hist.order_id = OrderId(ORDER_COUNTER - 1)
            /\ db_file.status = "ok"
            /\ db_file.orders = ORDERS_DB
            /\ db_file.counter = ORDER_COUNTER)
    /\ [][BeforeOrAfterExecute => StoresUnchanged]_vars
    /\ [][ExecuteCreateStep =>
            /\ exec_hist'.order_id = OrderId(ORDER_COUNTER)
            /\ ORDER_COUNTER' = ORDER_COUNTER + 1
            /\ DictHas(ORDERS_DB', exec_hist'.order_id)
            /\ StoresOnlyGrow]_vars

\* the same request has been submitted again: its run stored ORD-002, a
\* second order with the same fields as ORD-001, and failed in stage 4
C22_Witness ==
    /\ CreateFailedInRender
    /\ exec_hist.order_id = OrderId(2)
    /\ DictHas(ORDERS_DB, OrderId(1))
    /\ DictGet(ORDERS_DB, OrderId(1), NoFields) =
           DictGet(ORDERS_DB, OrderId(2), NoFields)
    /\ ORDER_COUNTER = 3

====
